---- MODULE Spec2Model ----
(***************************************************************************)
(* xTool laser integration: the device protocol client (HTTP methods and   *)
(* the push-channel task of api.py), the data update coordinator           *)
(* (coordinator.py) and the control-action dispatch (__init__.py,          *)
(* button.py), as state machines whose steps run from one await to the     *)
(* next on the single asyncio event loop.                                  *)
(***************************************************************************)
EXTENDS Integers, Sequences, FiniteSets, TLC

(***************************************************************************)
(* Bounds of the model.                                                    *)
(***************************************************************************)
\* longest text of a push frame, in characters
MaxFrameLen == 2
\* number of push-channel tasks of one client that exist at a time
MaxTasks == 2
\* datagrams received within one discovery window
MaxDatagrams == 3

(***************************************************************************)
(* Program constants.                                                      *)
(***************************************************************************)
\* const.py DEFAULT_SCAN_INTERVAL: seconds between scheduled polls
DEFAULT_SCAN_INTERVAL == 3
\* api.py _ws_loop: asyncio.sleep(5), the reconnect backoff in seconds
BACKOFF_SECONDS == 5

ATTR_WS_STATE == "ws_state"

(***************************************************************************)
(* Python / JSON values, tagged by type.                                   *)
(***************************************************************************)
PyNone == [t |-> "null"]
PyBool(b) == [t |-> "bool", b |-> b]
PyNum(n) == [t |-> "num", n |-> n]
PyStr(s) == [t |-> "str", s |-> s]
PyList == [t |-> "array"]
PyDict(d) == [t |-> "object", body |-> d]

\* the empty dict {}
EmptyDict == [k \in {} |-> PyNone]

\* dict.get(key, default)
DictGet(d, key, default) == IF key \in DOMAIN d THEN d[key] ELSE default

\* an outcome of a call: a returned value or a raised exception
Ret(v) == [st |-> "return", val |-> v]
Raise(e) == [st |-> "raise", err |-> e]
Raised(r) == r.st = "raise"

\* decimal text of the small numbers the device uses as state codes
DigitText == [n \in 0..9 |-> CASE n = 0 -> "0" [] n = 1 -> "1" [] n = 2 -> "2"
                               [] n = 3 -> "3" [] n = 4 -> "4" [] n = 5 -> "5"
                               [] n = 6 -> "6" [] n = 7 -> "7" [] n = 8 -> "8"
                               [] OTHER -> "9"]

\* texts that Python's float()/int() parse as a number
NumericTexts == {"0", "30", "45"}
TextNumber(s) == CASE s = "0" -> 0 [] s = "30" -> 30 [] OTHER -> 45

\* str(v)
py_str(v) ==
    CASE v.t = "str" -> v.s
      [] v.t = "num" -> IF v.n \in DOMAIN DigitText THEN DigitText[v.n] ELSE "<number>"
      [] v.t = "null" -> "None"
      [] v.t = "bool" -> IF v.b THEN "True" ELSE "False"
      [] v.t = "array" -> "[]"
      [] OTHER -> "{...}"

\* float(v) and int(v): a number, the number a numeric text spells, 1/0 for
\* a bool; ValueError on any other text, TypeError on None, a list or a dict
py_number(v) ==
    CASE v.t = "num" -> Ret(v.n)
      [] v.t = "bool" -> Ret(IF v.b THEN 1 ELSE 0)
      [] v.t = "str" -> IF v.s \in NumericTexts THEN Ret(TextNumber(v.s))
                        ELSE Raise("ValueError")
      [] OTHER -> Raise("TypeError")

(***************************************************************************)
(* HTTP responses of the device, as aiohttp presents them to _get_json.    *)
(***************************************************************************)
\* the request timed out, the transport failed, the status is not 2xx, the
\* body is not JSON: each raises inside the try block of _get_json
HttpFailureKinds == {"timeout", "transport", "status", "nonjson"}
\* a 2xx answer whose body decodes, but not to a JSON object: an empty body
\* (response.json gives None) or a JSON array
MalformedKinds == {"empty", "array"}

HttpFailure(k) == [kind |-> k]
HttpMalformed(k) == [kind |-> k]
HttpObject(d) == [kind |-> "object", body |-> d]

\* XToolApiClient._get_json
_get_json(resp) ==
    CASE resp.kind \in HttpFailureKinds -> Raise("XToolApiError")
      [] resp.kind = "empty" -> Ret(PyNone)
      [] resp.kind = "array" -> Ret(PyList)
      [] OTHER -> Ret(PyDict(resp.body))

\* payload.get(key, default) on whatever _get_json returned: only a dict has
\* a get method
PayloadGet(payload, key, default) ==
    IF payload.t = "object" THEN Ret(DictGet(payload.body, key, default))
    ELSE Raise("AttributeError")

\* XToolApiClient.async_ping
async_ping(resp) ==
    LET p == _get_json(resp) IN
    IF Raised(p) THEN p
    ELSE LET g == PayloadGet(p.val, "result", PyNone) IN
         IF Raised(g) THEN g ELSE Ret(PyBool(g.val = PyStr("ok")))

\* XToolApiClient.async_get_machine_type
async_get_machine_type(resp) ==
    LET p == _get_json(resp) IN
    IF Raised(p) THEN p
    ELSE LET g == PayloadGet(p.val, "type", PyStr("Unknown xTool")) IN
         IF Raised(g) THEN g ELSE Ret(PyStr(py_str(g.val)))

\* truthiness of a value (`if mac`)
py_truthy(v) ==
    CASE v.t = "null" -> FALSE
      [] v.t = "bool" -> v.b
      [] v.t = "num" -> v.n # 0
      [] v.t = "str" -> v.s # ""
      [] v.t = "array" -> FALSE
      [] OTHER -> DOMAIN v.body # {}

\* XToolApiClient.async_get_mac
async_get_mac(resp) ==
    LET p == _get_json(resp) IN
    IF Raised(p) THEN p
    ELSE LET g == PayloadGet(p.val, "mac", PyNone) IN
         IF Raised(g) THEN g
         ELSE IF py_truthy(g.val) THEN Ret(PyStr(py_str(g.val))) ELSE Ret(PyNone)

\* XToolApiClient.async_get_progress
async_get_progress(resp) == _get_json(resp)

\* XToolApiClient.async_get_working_state
async_get_working_state(resp) ==
    LET p == _get_json(resp) IN
    IF Raised(p) THEN p
    ELSE LET g == PayloadGet(p.val, "working", PyStr("0")) IN
         IF Raised(g) THEN g ELSE Ret(PyStr(py_str(g.val)))

\* XToolApiClient.async_get_peripheral_status
async_get_peripheral_status(resp) == _get_json(resp)

\* XToolApiClient.async_cnc_action
async_cnc_action(resp) ==
    LET p == _get_json(resp) IN
    IF Raised(p) THEN p
    ELSE LET g == PayloadGet(p.val, "result", PyNone) IN
         IF Raised(g) THEN g ELSE Ret(PyBool(g.val = PyStr("ok")))

\* XToolApiClient.async_get_snapshot, after the gather: the dict literal,
\* whose entries are evaluated in order (progress, working, line)
SnapshotDict(progress, working_state, peripheral, machine_type) ==
    IF progress.t # "object" THEN Raise("AttributeError")
    ELSE LET p == py_number(DictGet(progress.body, "progress", PyNum(0)))
             w == py_number(DictGet(progress.body, "working", PyNum(0)))
             l == py_number(DictGet(progress.body, "line", PyNum(0)))
         IN  IF Raised(p) THEN p
             ELSE IF Raised(w) THEN w
             ELSE IF Raised(l) THEN l
             ELSE Ret(("progress" :> PyNum(p.val)) @@ ("working" :> PyNum(w.val))
                      @@ ("line" :> PyNum(l.val)) @@ ("working_state" :> working_state)
                      @@ ("machine_type" :> machine_type)
                      @@ ("peripheral_status" :> peripheral))

\* XToolApiClient.async_get_snapshot: the four sub-calls run concurrently
\* under asyncio.gather; when some fail, the exception of whichever fails
\* first reaches the caller, so every failing sub-call's error is a
\* possible outcome. The set of possible outcomes.
async_get_snapshot(rp, rw, rs, rm) ==
    LET subs == << async_get_progress(rp), async_get_working_state(rw),
                   async_get_peripheral_status(rs), async_get_machine_type(rm) >>
        failed == {i \in 1..4 : Raised(subs[i])}
    IN  IF failed # {} THEN {subs[i] : i \in failed}
        ELSE {SnapshotDict(subs[1].val, subs[2].val, subs[3].val, subs[4].val)}

(***************************************************************************)
(* Push frames: texts over a two-letter alphabet, and str.strip().         *)
(***************************************************************************)
Chars == {"a", " "}

RECURSIVE TextsOfLen(_)
TextsOfLen(n) ==
    IF n = 0 THEN {<< >>}
    ELSE {Append(s, c) : s \in TextsOfLen(n - 1), c \in Chars}

\* the texts a text frame may carry
FrameTexts == UNION {TextsOfLen(n) : n \in 1..MaxFrameLen}

RECURSIVE lstrip(_)
lstrip(s) == IF s # << >> /\ Head(s) = " " THEN lstrip(Tail(s)) ELSE s

RECURSIVE rstrip(_)
rstrip(s) ==
    IF s # << >> /\ s[Len(s)] = " " THEN rstrip(SubSeq(s, 1, Len(s) - 1)) ELSE s

\* msg.data.strip()
strip(s) == rstrip(lstrip(s))

\* a str given by its characters
PyText(s) == [t |-> "str", chars |-> s]

\* the messages the push channel hands to on_message
Msgs == {strip(f) : f \in FrameTexts}

(***************************************************************************)
(* State.                                                                  *)
(***************************************************************************)
VARIABLES
    \* --- XToolDataUpdateCoordinator (and its DataUpdateCoordinator base) ---
    data,                 \* self.data: None, or the current snapshot dict
    last_update_success,  \* base class: whether the last update succeeded
    last_exception,       \* base class: the exception of the last failed poll
    has_listeners,        \* base class: whether any subscriber is registered
    refresh_in,           \* base class: {} when no refresh is scheduled, else
                          \* {n}: the scheduled refresh is due in n seconds
    poll_pc,              \* "idle", or "in_flight": _async_update_data awaits
                          \* async_get_snapshot
    poll_origin,          \* "scheduled" or "requested": what started the poll
    notified,             \* listener notifications issued by the last step
    \* --- observations of the last step / history ---
    last_op,              \* the operation the last step belonged to
    last_snapshot,        \* outcome of the last completed async_get_snapshot
    reading,              \* {} or {<<progress, working, line>>} of the /progress body
                          \* behind the last successful poll
    last_push,            \* {} or {m}: the most recently handled push message
    push_in_poll,         \* {} or {m}: the last push handled during the poll
                          \* now in flight (or just completed)
    \* --- control-action dispatch ---
    dispatch_pc,          \* "idle", or "sending": awaiting async_cnc_action
    cnc_request,          \* action of the last GET /cnc/data request issued
    \* --- XToolApiClient push channel ---
    ws_task,              \* self._ws_task: 0 for None, else a task id
    ws_stop,              \* self._ws_stop.is_set()
    task_pc,              \* per task: where the task is suspended
    cancel_req,           \* tasks with a cancellation requested, not yet taken
    stop_pc,              \* per caller of async_stop_ws: "idle" or "awaiting"
    stop_wait,            \* per caller: the task it awaits (0 when idle)
    attempt,              \* per task: how the last connection attempt ended
    backoff,              \* per task: seconds slept since that attempt ended
    delivered,            \* per task: on_message calls in the current or last
                          \* connection attempt
    \* --- HTTP method calls (pure functions of the response) ---
    http_call,            \* the last method call: method, response(s), outcome
    \* --- the integration: hass.data[DOMAIN] and the job services ---
    registry,             \* hass.data[DOMAIN]: the loaded entry ids, in
                          \* insertion order
    svc_pc,               \* "idle", "next" (at the head of the for loop) or
                          \* "sending" (awaiting async_cnc_action)
    svc_targets,          \* the entries the running service call has left
    svc_action,           \* the action of the running service call
    svc_result,           \* how the last service call ended, and its input
    sent,                 \* the entries the last service call sent a device
                          \* request for
    refreshed,            \* the entries whose coordinator the last service
                          \* call asked for a refresh
    \* --- XToolApiClient._discover_devices_sync: one run ---
    disc_pc,              \* "idle", "receiving" (in the while loop) or "done"
    sock,                 \* the UDP socket: "none", "open" or "closed"
    request_id,           \* the requestId broadcast in this run
    found,                \* the dict `found`, as the list of its values in
                          \* insertion order
    disc_count,           \* datagrams received in this run
    disc_last,            \* the datagram received last (history)
    sock_error,           \* whether a socket call raised OSError (history)
    last_accepted,        \* per host, name and version of the last accepted
                          \* response (history)
    disc_result,          \* what the run returned or raised
    \* --- async_setup_entry / async_unload_entry for the entry "e1" ---
    use_websocket,        \* coordinator.use_websocket
    setup_pc              \* where the entry is: "none", "refreshing",
                          \* "failed", "forwarding", "forwarded", "started",
                          \* "stopping", "stopped", "unloaded", "kept"

coord_vars == << data, last_update_success, last_exception, has_listeners,
                 refresh_in, poll_pc, poll_origin, notified >>
obs_vars == << last_op, last_snapshot, reading, last_push, push_in_poll >>
dispatch_vars == << dispatch_pc, cnc_request >>
ws_vars == << ws_task, ws_stop, task_pc, cancel_req, stop_pc, stop_wait,
              attempt, backoff, delivered >>
svc_vars == << registry, svc_pc, svc_targets, svc_action, svc_result, sent, refreshed >>
disc_vars == << disc_pc, sock, request_id, found, disc_count, disc_last, sock_error,
                last_accepted, disc_result >>
life_vars == << use_websocket, setup_pc >>
ext_vars == << svc_vars, disc_vars, life_vars >>
vars == << coord_vars, obs_vars, dispatch_vars, ws_vars, http_call, ext_vars >>

\* self.data is None
None == [none |-> TRUE]

\* the push handler starting from an empty dict instead of the current data
DataOrEmpty_Fresh(d) == EmptyDict

\* `self.data or {}`
DataOrEmpty(d) == IF d = None THEN EmptyDict ELSE d

(***************************************************************************)
(* XToolDataUpdateCoordinator.                                             *)
(***************************************************************************)
WORKING_STATE_MAP == ("0" :> "idle") @@ ("1" :> "running_api") @@ ("2" :> "running_button")

\* the lookup with the default taken from the first row of the table
WorkingStateLabel_DefaultIdle(raw) ==
    IF raw \in DOMAIN WORKING_STATE_MAP THEN WORKING_STATE_MAP[raw] ELSE "idle"

\* WORKING_STATE_MAP.get(raw, "unknown")
WorkingStateLabel(raw) ==
    IF raw \in DOMAIN WORKING_STATE_MAP THEN WORKING_STATE_MAP[raw] ELSE "unknown"

\* the carry-forward testing the old field's value instead of its presence
\* (`if self.data and self.data.get(ATTR_WS_STATE)`)
CarryWsState_IfTruthy(snapshot, current) ==
    IF current # None /\ ATTR_WS_STATE \in DOMAIN current
                      /\ current[ATTR_WS_STATE].chars # << >>
    THEN (ATTR_WS_STATE :> current[ATTR_WS_STATE]) @@ snapshot
    ELSE snapshot

\* the poll result replacing the snapshot wholesale
CarryWsState_Never(snapshot, current) == snapshot

\* lines 61-62 of _async_update_data: carry the push-event field forward
CarryWsState(snapshot, current) ==
    IF current # None /\ DOMAIN current # {} /\ ATTR_WS_STATE \in DOMAIN current
    THEN (ATTR_WS_STATE :> current[ATTR_WS_STATE]) @@ snapshot
    ELSE snapshot

\* XToolDataUpdateCoordinator._async_update_data, from the outcome of
\* async_get_snapshot on: `current` is self.data as read after the await
_async_update_data(got, current) ==
    IF Raised(got)
    THEN IF got.err = "XToolApiError" THEN Raise("UpdateFailed") ELSE got
    ELSE LET raw == DictGet(got.val, "working_state", PyStr("0")).s
             labelled == ("working_state_label" :> PyStr(WorkingStateLabel(raw))) @@ got.val
         IN  Ret(CarryWsState(labelled, current))

\* base class _schedule_refresh: (re)arm the refresh timer one interval ahead
ScheduleRefresh == IF has_listeners THEN {DEFAULT_SCAN_INTERVAL} ELSE {}

\* base class async_set_updated_data(current), called by the push handler:
\* cancels the scheduled refresh, stores the data, marks the update as
\* successful, re-arms the refresh timer and notifies the listeners
async_set_updated_data(current) ==
    /\ data' = current
    /\ last_update_success' = TRUE
    /\ refresh_in' = ScheduleRefresh
    /\ notified' = 1
    /\ UNCHANGED << last_exception, has_listeners, poll_pc, poll_origin >>

\* the merge with its operands swapped: a push-event field already in the
\* snapshot wins over the new message
_async_handle_ws_message_KeepFirst(message) ==
    LET current == DataOrEmpty(data) @@ (ATTR_WS_STATE :> PyText(message))
    IN  async_set_updated_data(current)

\* XToolDataUpdateCoordinator._async_handle_ws_message
_async_handle_ws_message(message) ==
    LET current == (ATTR_WS_STATE :> PyText(message)) @@ DataOrEmpty(data)
    IN  async_set_updated_data(current)

\* base class async_add_listener: a subscriber registers; the first one
\* arms the refresh timer
Subscribe ==
    /\ ~has_listeners
    /\ has_listeners' = TRUE
    /\ refresh_in' = {DEFAULT_SCAN_INTERVAL}
    /\ notified' = 0
    /\ last_op' = "subscribe"
    /\ UNCHANGED << dispatch_vars, ws_vars, http_call, ext_vars >>
    /\ UNCHANGED << data, last_update_success, last_exception, poll_pc, poll_origin,
                    last_snapshot, reading, last_push, push_in_poll >>

\* one second passes on the refresh timer
Tick ==
    /\ \E n \in refresh_in : n > 0 /\ refresh_in' = {n - 1}
    /\ notified' = 0
    /\ last_op' = "tick"
    /\ UNCHANGED << dispatch_vars, ws_vars, http_call, ext_vars >>
    /\ UNCHANGED << data, last_update_success, last_exception, has_listeners, poll_pc,
                    poll_origin, last_snapshot, reading, last_push, push_in_poll >>

\* a poll starts (base class _async_refresh up to the await in
\* _async_update_data): the scheduled refresh is cancelled and
\* async_get_snapshot is called
StartPoll(origin) ==
    /\ poll_pc = "idle"
    /\ poll_pc' = "in_flight"
    /\ poll_origin' = origin
    /\ refresh_in' = {}
    /\ push_in_poll' = {}
    /\ notified' = 0
    /\ UNCHANGED << data, last_update_success, last_exception, has_listeners,
                    last_snapshot, reading, last_push >>

\* the refresh timer fires: the scheduled poll starts
ScheduledPoll ==
    /\ refresh_in = {0}
    /\ StartPoll("scheduled")
    /\ last_op' = "poll_start"
    /\ UNCHANGED << dispatch_vars, ws_vars, http_call, ext_vars >>

\* an explicit refresh (async_config_entry_first_refresh at setup): the first
\* poll of the coordinator, not waiting for the timer
FirstRefresh ==
    /\ poll_origin = "none"
    /\ StartPoll("first")
    /\ last_op' = "poll_start"
    /\ UNCHANGED << dispatch_vars, ws_vars, http_call, ext_vars >>

\* async_config_entry_first_refresh returning as if it were async_refresh:
\* the failure of the first poll is not raised
FirstRefreshOutcome_NotRaised(res) == "forwarding"

\* `await coordinator.async_config_entry_first_refresh()` in
\* async_setup_entry: a failed first poll raises ConfigEntryNotReady out of
\* the setup, a successful one lets it go on to the platforms
FirstRefreshOutcome(res) == IF Raised(res) THEN "failed" ELSE "forwarding"

\* the poll in flight completes: async_get_snapshot returns or raises, the
\* rest of _async_update_data runs and the base class stores the result
FinishPoll(got) ==
    LET res == _async_update_data(got, data) IN
    /\ poll_pc = "in_flight"
    /\ poll_pc' = "idle"
    /\ last_snapshot' = got
    /\ refresh_in' = ScheduleRefresh
    /\ IF Raised(res)
       THEN /\ last_exception' = res.err
            /\ last_update_success' = FALSE
            /\ notified' = IF last_update_success THEN 1 ELSE 0
            /\ last_op' = "poll_failed"
            /\ UNCHANGED data
       ELSE /\ data' = res.val
            /\ last_exception' = "none"
            /\ last_update_success' = TRUE
            /\ notified' = 1
            /\ last_op' = "poll_ok"
    /\ UNCHANGED << has_listeners, poll_origin, last_push, push_in_poll >>
    /\ UNCHANGED << dispatch_vars, ws_vars, http_call, svc_vars, disc_vars, use_websocket >>
    /\ setup_pc' = IF setup_pc = "refreshing" THEN FirstRefreshOutcome(res) ELSE setup_pc

\* the device's answers to the four requests of one poll
ProgressFull ==
    ("progress" :> PyNum(45)) @@ ("working" :> PyNum(120000)) @@ ("line" :> PyNum(30))
PollProgress == {HttpObject(ProgressFull), HttpFailure("timeout")}
PollWorking == {HttpObject("working" :> PyStr("1")), HttpObject("working" :> PyNum(2)),
                HttpObject("working" :> PyNum(9)), HttpObject(EmptyDict),
                HttpMalformed("array")}
PollPeripheral == {HttpObject("sdCard" :> PyNum(1)), HttpFailure("transport")}
PollMachine == {HttpObject("type" :> PyStr("xTool D1")), HttpFailure("nonjson")}

\* the /progress bodies of a device whose job advances: the working time
\* around the rounding boundaries of the working-time sensor, fields absent
ReadingProgress ==
    {HttpObject(ProgressFull), HttpObject(EmptyDict), HttpFailure("timeout")}
    \cup {HttpObject(("progress" :> PyNum(1)) @@ ("working" :> PyNum(w)) @@ ("line" :> PyNum(2))) :
             w \in {499, 500, 1500, 1501, 2500}}
    \cup {HttpObject("working" :> PyNum(0)), HttpObject("line" :> PyNum(7))}

\* what a /progress body says: its progress, working and line fields, in
\* that order, None for a field it leaves out
Readings(body) ==
    << DictGet(body, "progress", PyNone), DictGet(body, "working", PyNone),
       DictGet(body, "line", PyNone) >>

\* the poll in flight completes with the device answering /progress from
\* `bodies`
PollAnswered(bodies) ==
    \E rp \in bodies, rw \in PollWorking, rs \in PollPeripheral, rm \in PollMachine :
        \E got \in async_get_snapshot(rp, rw, rs, rm) :
            /\ FinishPoll(got)
            /\ reading' = IF Raised(got) THEN reading ELSE {Readings(rp.body)}

PollComplete == PollAnswered(PollProgress)

\* a poll of the device whose job advances
PollReadings == PollAnswered(ReadingProgress)

(***************************************************************************)
(* The sensor entities: SENSORS[..].value_fn and XToolSensor.native_value.  *)
(***************************************************************************)
\* Python's round(n / d) for integers n and d > 0: to the nearest whole
\* number, a tie to the even one
py_round_div(n, d) ==
    LET q == n \div d
        r == n % d
    IN  IF 2 * r < d THEN q
        ELSE IF 2 * r > d THEN q + 1
        ELSE IF q % 2 = 0 THEN q ELSE q + 1

\* the working time cut off to whole seconds (`// 1000`)
working_seconds_Floor(d) ==
    LET working == DictGet(d, "working", PyNum(0))
    IN  PyNum((IF py_truthy(working) THEN working.n ELSE 0) \div 1000)

\* value_fn of working_seconds: round((data.get("working", 0) or 0) / 1000)
working_seconds(d) ==
    LET working == DictGet(d, "working", PyNum(0))
    IN  PyNum(py_round_div(IF py_truthy(working) THEN working.n ELSE 0, 1000))

\* value_fn of the sensor with the given key
value_fn(key, d) ==
    CASE key = "working_seconds" -> working_seconds(d)
      [] key = "working_state" -> DictGet(d, "working_state_label", PyNone)
      [] OTHER -> DictGet(d, key, PyNone)

\* XToolSensor.native_value
native_value(key) == value_fn(key, DataOrEmpty(data))

\* the push channel calls on_message(message)
PushMessage ==
    \E m \in Msgs :
        /\ _async_handle_ws_message(m)
        /\ last_op' = "push"
        /\ last_push' = {m}
        /\ push_in_poll' = IF poll_pc = "in_flight" THEN {m} ELSE push_in_poll
        /\ UNCHANGED << last_snapshot, reading >>
        /\ UNCHANGED << dispatch_vars, ws_vars, http_call, ext_vars >>

(***************************************************************************)
(* Control-action dispatch: _async_handle_job_service for one target, and  *)
(* XToolButton.async_press, which has the same two statements.             *)
(***************************************************************************)
Actions == {"pause", "resume", "stop"}

\* the device's answers to GET /cnc/data
CncResponses == {HttpObject("result" :> PyStr("ok")), HttpObject("result" :> PyStr("fail")),
                 HttpFailure("timeout"), HttpMalformed("empty")}

\* base class async_request_refresh: the poll starts at once, whatever the
\* refresh timer says; a request made while a poll is in flight joins it
async_request_refresh ==
    IF poll_pc = "idle"
    THEN StartPoll("requested")
    ELSE /\ notified' = 0
         /\ UNCHANGED << data, last_update_success, last_exception, has_listeners,
                         refresh_in, poll_pc, poll_origin, last_snapshot, reading, last_push,
                         push_in_poll >>

\* the two statements in the other order: the refresh is requested when the
\* device request goes out
DispatchCall_RefreshFirst(action) ==
    /\ dispatch_pc = "idle"
    /\ dispatch_pc' = "sending"
    /\ cnc_request' = action
    /\ last_op' = "dispatch_call"
    /\ async_request_refresh
    /\ UNCHANGED << ws_vars, http_call, ext_vars >>

\* `await api.async_cnc_action(action)` up to the await: the request goes out
DispatchCall(action) ==
    /\ dispatch_pc = "idle"
    /\ dispatch_pc' = "sending"
    /\ cnc_request' = action
    /\ notified' = 0
    /\ last_op' = "dispatch_call"
    /\ UNCHANGED << ws_vars, http_call, ext_vars >>
    /\ UNCHANGED << data, last_update_success, last_exception, has_listeners,
                    refresh_in, poll_pc, poll_origin, last_snapshot, reading, last_push,
                    push_in_poll >>

\* async_cnc_action returns or raises; on a return (of either bool, the
\* value is not looked at) `await coordinator.async_request_refresh()` runs
DispatchReply(resp) ==
    /\ dispatch_pc = "sending"
    /\ dispatch_pc' = "idle"
    /\ UNCHANGED cnc_request
    /\ UNCHANGED << ws_vars, http_call, ext_vars >>
    /\ IF Raised(async_cnc_action(resp))
       THEN /\ last_op' = "dispatch_raised"
            /\ notified' = 0
            /\ UNCHANGED << data, last_update_success, last_exception, has_listeners,
                            refresh_in, poll_pc, poll_origin, last_snapshot, reading, last_push,
                            push_in_poll >>
       ELSE /\ last_op' = "dispatch_done"
            /\ async_request_refresh

Dispatch == \E a \in Actions : DispatchCall(a)
DispatchAnswer == \E resp \in CncResponses : DispatchReply(resp)

(***************************************************************************)
(* The job services pause_job / resume_job / stop_job of __init__.py:      *)
(* _async_handle_job_service and _get_target_entries over hass.data[DOMAIN]*)
(* (the registry). Entry "e1" is the entry of the coordinator modelled     *)
(* above; of the other entries only the registry membership and the        *)
(* requests made for them are kept.                                        *)
(***************************************************************************)
EntryIds == {"e1", "e2"}

\* call.data.get(ATTR_ENTRY_ID): None when the key is absent, else the str
\* the schema let through (any str, the empty one included)
EntryIdInputs == {PyNone, PyStr(""), PyStr("e1"), PyStr("e2"), PyStr("ghost")}

\* the keys of the registry
Loaded(reg) == {reg[i] : i \in DOMAIN reg}

\* hass.data[DOMAIN][entry_id] = {...}: a new key goes last
RegistryInsert(reg, e) == IF e \in Loaded(reg) THEN reg ELSE Append(reg, e)

\* hass.data[DOMAIN].pop(entry_id)
RegistryPop(reg, e) == SelectSeq(reg, LAMBDA x : x # e)

\* _get_target_entries(hass, entry_id)
_get_target_entries(reg, entry_id) ==
    IF reg = << >>
    THEN Raise("HomeAssistantError")
    ELSE IF py_truthy(entry_id)
         THEN IF entry_id.s \notin Loaded(reg)
              THEN Raise("HomeAssistantError")
              ELSE Ret(<< entry_id.s >>)
         ELSE Ret(reg)

\* async_setup_entry line 44 run for entry e: the entry enters the registry
EntryLoaded ==
    \E e \in EntryIds :
        /\ e \notin Loaded(registry)
        /\ registry' = RegistryInsert(registry, e)
        /\ last_op' = "entry_loaded"
        /\ UNCHANGED << svc_pc, svc_targets, svc_action, svc_result, sent, refreshed >>
        /\ UNCHANGED << coord_vars, last_snapshot, reading, last_push, push_in_poll >>
        /\ UNCHANGED << dispatch_vars, ws_vars, http_call, disc_vars, life_vars >>

\* async_unload_entry line 65 run for entry e: the entry leaves the registry
EntryUnloaded ==
    \E e \in EntryIds :
        /\ e \in Loaded(registry)
        /\ registry' = RegistryPop(registry, e)
        /\ last_op' = "entry_unloaded"
        /\ UNCHANGED << svc_pc, svc_targets, svc_action, svc_result, sent, refreshed >>
        /\ UNCHANGED << coord_vars, last_snapshot, reading, last_push, push_in_poll >>
        /\ UNCHANGED << dispatch_vars, ws_vars, http_call, disc_vars, life_vars >>

\* the head of the for loop with target e and the statements up to
\* `await api.async_cnc_action(action)`: the item is looked up in the
\* registry and the device request goes out
ServiceSend(e) ==
    IF e \in Loaded(registry)
    THEN /\ svc_pc' = "sending"
         /\ sent' = sent \cup {e}
         /\ svc_result' = [svc_result EXCEPT !.st = "running"]
    ELSE /\ svc_pc' = "idle"
         /\ sent' = sent
         /\ svc_result' = [svc_result EXCEPT !.st = "raise", !.err = "KeyError"]

\* a service is called: _async_handle_job_service up to its first await
ServiceCall ==
    \E action \in Actions, entry_id \in EntryIdInputs :
        LET entries == _get_target_entries(registry, entry_id) IN
        /\ svc_pc = "idle"
        /\ svc_action' = action
        /\ refreshed' = {}
        /\ last_op' = "service_call"
        /\ notified' = 0
        /\ IF Raised(entries)
           THEN /\ svc_result' = [st |-> "raise", err |-> entries.err, entry_id |-> entry_id]
                /\ svc_targets' = << >>
                /\ sent' = {}
                /\ svc_pc' = "idle"
           ELSE /\ svc_result' = [st |-> "running", err |-> "none", entry_id |-> entry_id]
                /\ svc_targets' = entries.val
                /\ sent' = {Head(entries.val)}
                /\ svc_pc' = "sending"
        /\ UNCHANGED registry
        /\ UNCHANGED << data, last_update_success, last_exception, has_listeners,
                        refresh_in, poll_pc, poll_origin, last_snapshot, reading, last_push,
                        push_in_poll >>
        /\ UNCHANGED << dispatch_vars, ws_vars, http_call, disc_vars, life_vars >>

\* async_cnc_action answers for the target at the head of svc_targets: an
\* exception ends the service call, a return is followed by
\* `await coordinator.async_request_refresh()` on that target's coordinator
ServiceReply ==
    \E resp \in CncResponses :
        LET e == Head(svc_targets)
            out == async_cnc_action(resp) IN
        /\ svc_pc = "sending"
        /\ last_op' = "service_reply"
        /\ UNCHANGED << registry, svc_action, sent >>
        /\ UNCHANGED << dispatch_vars, ws_vars, http_call, disc_vars, life_vars >>
        /\ IF Raised(out)
           THEN /\ svc_pc' = "idle"
                /\ svc_result' = [svc_result EXCEPT !.st = "raise", !.err = out.err]
                /\ notified' = 0
                /\ UNCHANGED << svc_targets, refreshed >>
                /\ UNCHANGED << data, last_update_success, last_exception, has_listeners,
                                refresh_in, poll_pc, poll_origin, last_snapshot, reading,
                                last_push, push_in_poll >>
           ELSE /\ svc_pc' = "next"
                /\ svc_targets' = Tail(svc_targets)
                /\ refreshed' = refreshed \cup {e}
                /\ UNCHANGED svc_result
                /\ IF e = "e1"
                   THEN async_request_refresh
                   ELSE /\ notified' = 0
                        /\ UNCHANGED << data, last_update_success, last_exception,
                                        has_listeners, refresh_in, poll_pc, poll_origin,
                                        last_snapshot, reading, last_push, push_in_poll >>

\* async_request_refresh has returned: the next round of the for loop, or
\* the end of the service call
ServiceNext ==
    /\ svc_pc = "next"
    /\ last_op' = "service_next"
    /\ notified' = 0
    /\ IF svc_targets = << >>
       THEN /\ svc_pc' = "idle"
            /\ svc_result' = [svc_result EXCEPT !.st = "return"]
            /\ UNCHANGED sent
       ELSE ServiceSend(Head(svc_targets))
    /\ UNCHANGED << registry, svc_targets, svc_action, refreshed >>
    /\ UNCHANGED << data, last_update_success, last_exception, has_listeners,
                    refresh_in, poll_pc, poll_origin, last_snapshot, reading, last_push,
                    push_in_poll >>
    /\ UNCHANGED << dispatch_vars, ws_vars, http_call, disc_vars, life_vars >>

(***************************************************************************)
(* XToolApiClient push channel: async_start_ws, async_stop_ws, _ws_loop.   *)
(* A task is suspended at one of its awaits; a step of a task runs it to   *)
(* its next await. task.cancel() makes the task's next step raise          *)
(* CancelledError at the await it is suspended at.                         *)
(***************************************************************************)
Tasks == 1..MaxTasks
\* the callers that may be inside async_stop_ws: its one caller is
\* XToolDataUpdateCoordinator.async_stop
StopCallers == {"coordinator"}

\* task.done()
TaskDone(t) == task_pc[t] = "done"
\* a task that was spawned and has not terminated
Alive(t) == task_pc[t] \notin {"unborn", "done"}

\* a task that has ended and that neither self._ws_task nor a caller awaiting
\* it refers to any more is gone: its slot is free for a later task
Forget(pcs, task_ref, waits) ==
    [t \in Tasks |->
        IF pcs[t] = "done" /\ t # task_ref /\ (\A c \in StopCallers : waits[c] # t)
        THEN "unborn" ELSE pcs[t]]

\* XToolApiClient.async_start_ws
async_start_ws ==
    IF ws_task # 0 /\ ~TaskDone(ws_task)
    THEN /\ last_op' = "ws_start_noop"
         /\ UNCHANGED << ws_task, ws_stop, task_pc >>
    ELSE \E t \in Tasks :
            /\ task_pc[t] = "unborn"
            /\ \A u \in Tasks : u < t => task_pc[u] # "unborn"
            /\ ws_stop' = FALSE
            /\ ws_task' = t
            /\ task_pc' = Forget([task_pc EXCEPT ![t] = "created"], t, stop_wait)
            /\ last_op' = "ws_start"

StartWs ==
    /\ async_start_ws
    /\ UNCHANGED << dispatch_vars, http_call, ext_vars >>
    /\ UNCHANGED << cancel_req, stop_pc, stop_wait, attempt, backoff, delivered >>
    /\ UNCHANGED << coord_vars, last_snapshot, reading, last_push, push_in_poll >>

\* async_stop_ws without its `self._ws_task.cancel()`: the stop signal alone
async_stop_ws_begin_NoCancel(c) ==
    /\ stop_pc[c] = "idle"
    /\ ws_stop' = TRUE
    /\ IF ws_task = 0
       THEN /\ last_op' = "ws_stop_return"
            /\ UNCHANGED << ws_task, task_pc, cancel_req, stop_pc, stop_wait >>
       ELSE IF TaskDone(ws_task)
       THEN /\ ws_task' = 0
            /\ task_pc' = Forget(task_pc, 0, stop_wait)
            /\ last_op' = "ws_stop_return"
            /\ UNCHANGED << cancel_req, stop_pc, stop_wait >>
       ELSE /\ stop_pc' = [stop_pc EXCEPT ![c] = "awaiting"]
            /\ stop_wait' = [stop_wait EXCEPT ![c] = ws_task]
            /\ last_op' = "ws_stop_await"
            /\ UNCHANGED << ws_task, task_pc, cancel_req >>

\* XToolApiClient.async_stop_ws up to `await self._ws_task`: with no task it
\* returns; a task that is already done is awaited without suspending
async_stop_ws_begin(c) ==
    /\ stop_pc[c] = "idle"
    /\ ws_stop' = TRUE
    /\ IF ws_task = 0
       THEN /\ last_op' = "ws_stop_return"
            /\ UNCHANGED << ws_task, task_pc, cancel_req, stop_pc, stop_wait >>
       ELSE IF TaskDone(ws_task)
       THEN /\ ws_task' = 0
            /\ task_pc' = Forget(task_pc, 0, stop_wait)
            /\ last_op' = "ws_stop_return"
            /\ UNCHANGED << cancel_req, stop_pc, stop_wait >>
       ELSE /\ cancel_req' = cancel_req \cup {ws_task}
            /\ stop_pc' = [stop_pc EXCEPT ![c] = "awaiting"]
            /\ stop_wait' = [stop_wait EXCEPT ![c] = ws_task]
            /\ last_op' = "ws_stop_await"
            /\ UNCHANGED << ws_task, task_pc >>

\* XToolApiClient.async_stop_ws from the await on: the awaited task is done,
\* CancelledError is suppressed, self._ws_task = None
async_stop_ws_resume(c) ==
    /\ stop_pc[c] = "awaiting"
    /\ TaskDone(stop_wait[c])
    /\ ws_task' = 0
    /\ stop_pc' = [stop_pc EXCEPT ![c] = "idle"]
    /\ stop_wait' = [stop_wait EXCEPT ![c] = 0]
    /\ task_pc' = Forget(task_pc, 0, [stop_wait EXCEPT ![c] = 0])
    /\ last_op' = "ws_stop_return"
    /\ UNCHANGED << ws_stop, cancel_req >>

StopWsBegin ==
    \E c \in StopCallers :
        /\ async_stop_ws_begin(c)
        /\ UNCHANGED << dispatch_vars, http_call, ext_vars >>
        /\ UNCHANGED << attempt, backoff, delivered >>
        /\ UNCHANGED << coord_vars, last_snapshot, reading, last_push, push_in_poll >>

StopWsResume ==
    \E c \in StopCallers :
        /\ async_stop_ws_resume(c)
        /\ UNCHANGED << dispatch_vars, http_call, ext_vars >>
        /\ UNCHANGED << attempt, backoff, delivered >>
        /\ UNCHANGED << coord_vars, last_snapshot, reading, last_push, push_in_poll >>

\* a step of task t that is not cancelled and does not call on_message
TaskStep(t, from) ==
    /\ task_pc[t] = from
    /\ t \notin cancel_req
    /\ UNCHANGED << dispatch_vars, http_call, ext_vars >>
    /\ UNCHANGED << ws_task, ws_stop, cancel_req, stop_pc, stop_wait >>
    /\ UNCHANGED << coord_vars, last_snapshot, reading, last_push, push_in_poll >>

\* the task ends: its coroutine has returned or was cancelled; what was
\* recorded about its connection attempts ends with it
TaskEnds(t) ==
    /\ task_pc' = Forget([task_pc EXCEPT ![t] = "done"], ws_task, stop_wait)
    /\ attempt' = [attempt EXCEPT ![t] = "none"]
    /\ backoff' = [backoff EXCEPT ![t] = 0]
    /\ delivered' = [delivered EXCEPT ![t] = FALSE]

\* `while not self._ws_stop.is_set()`: the loop is left, or the next
\* connection attempt begins
WhileCheck(t, slept) ==
    IF ws_stop
    THEN TaskEnds(t)
    ELSE /\ task_pc' = [task_pc EXCEPT ![t] = "connecting"]
         /\ backoff' = [backoff EXCEPT ![t] = @ + slept]
         /\ delivered' = [delivered EXCEPT ![t] = FALSE]
         /\ UNCHANGED attempt

\* the loop without its backoff: straight to the next connection attempt
AfterTry_NoSleep(t, how) ==
    IF ws_stop
    THEN TaskEnds(t)
    ELSE /\ task_pc' = [task_pc EXCEPT ![t] = "connecting"]
         /\ attempt' = [attempt EXCEPT ![t] = how]
         /\ backoff' = [backoff EXCEPT ![t] = 0]
         /\ UNCHANGED delivered

\* the loop letting the failure out: the task ends with the attempt
AfterTry_Return(t, how) == TaskEnds(t)

\* lines 195-201, the connection attempt is over (`how` says how it ended):
\* return when stopping, else sleep
AfterTry(t, how) ==
    IF ws_stop
    THEN TaskEnds(t)
    ELSE /\ task_pc' = [task_pc EXCEPT ![t] = "sleeping"]
         /\ attempt' = [attempt EXCEPT ![t] = how]
         /\ backoff' = [backoff EXCEPT ![t] = 0]
         /\ UNCHANGED delivered

\* the task runs for the first time
TaskBegin ==
    \E t \in Tasks :
        /\ TaskStep(t, "created")
        /\ WhileCheck(t, 0)
        /\ last_op' = "task_step"

\* ws_connect raises TimeoutError or ClientError: swallowed
ConnectFail ==
    \E t \in Tasks :
        /\ TaskStep(t, "connecting")
        /\ AfterTry(t, "failed")
        /\ last_op' = "task_step"

\* ws_connect succeeds: the task waits for the first frame
ConnectOk ==
    \E t \in Tasks :
        /\ TaskStep(t, "connecting")
        /\ task_pc' = [task_pc EXCEPT ![t] = "receiving"]
        /\ last_op' = "task_step"
        /\ UNCHANGED << attempt, backoff, delivered >>

\* the connection ends while open: a CLOSED or ERROR frame, the end of the
\* stream, or TimeoutError / ClientError raised by the receive (swallowed)
ConnectionEnds ==
    \E t \in Tasks :
        /\ TaskStep(t, "receiving")
        /\ AfterTry(t, "closed")
        /\ last_op' = "task_step"

\* a frame that is neither TEXT nor CLOSED nor ERROR arrives
OtherFrame ==
    \E t \in Tasks :
        /\ TaskStep(t, "receiving")
        /\ IF ws_stop
           THEN AfterTry(t, "closed")
           ELSE UNCHANGED << task_pc, attempt, backoff, delivered >>
        /\ last_op' = "task_step"

\* a TEXT frame arrives: `break` when stopping, else on_message(strip(data)),
\* which is the coordinator's _async_handle_ws_message and does not suspend
TextFrame ==
    \E t \in Tasks, f \in FrameTexts :
        /\ task_pc[t] = "receiving"
        /\ t \notin cancel_req
        /\ UNCHANGED << dispatch_vars, http_call, ext_vars >>
        /\ UNCHANGED << ws_task, ws_stop, cancel_req, stop_pc, stop_wait >>
        /\ IF ws_stop
           THEN /\ AfterTry(t, "closed")
                /\ last_op' = "task_step"
                /\ UNCHANGED << coord_vars, last_snapshot, reading, last_push, push_in_poll >>
           ELSE /\ _async_handle_ws_message(strip(f))
                /\ last_push' = {strip(f)}
                /\ delivered' = [delivered EXCEPT ![t] = TRUE]
                /\ last_op' = "push"
                /\ UNCHANGED << task_pc, attempt, backoff, last_snapshot, reading, push_in_poll >>

\* asyncio.sleep(5) returns in task t
SleepDoneOf(t) ==
    /\ TaskStep(t, "sleeping")
    /\ WhileCheck(t, BACKOFF_SECONDS)
    /\ last_op' = "task_step"

SleepDone == \E t \in Tasks : SleepDoneOf(t)

\* CancelledError is raised at the await the task is suspended at; nothing
\* in _ws_loop catches it, so the task ends
TaskCancelledOf(t) ==
    /\ t \in cancel_req
    /\ Alive(t)
    /\ TaskEnds(t)
    /\ cancel_req' = cancel_req \ {t}
    /\ last_op' = "task_step"
    /\ UNCHANGED << dispatch_vars, http_call, ext_vars >>
    /\ UNCHANGED << ws_task, ws_stop, stop_pc, stop_wait >>
    /\ UNCHANGED << coord_vars, last_snapshot, reading, last_push, push_in_poll >>

TaskCancelled == \E t \in Tasks : TaskCancelledOf(t)

(***************************************************************************)
(* The HTTP methods as functions of the device's answer.                   *)
(***************************************************************************)
\* every kind of answer, with the given JSON objects as the well-formed ones
Responses(bodies) ==
    {HttpFailure(k) : k \in HttpFailureKinds} \cup {HttpMalformed(k) : k \in MalformedKinds}
        \cup {HttpObject(b) : b \in bodies}

\* the answer is a timeout, a transport failure, a non-2xx status, a body
\* that is not JSON, or a body that is not a JSON object
BadResponse(resp) == resp.kind \in HttpFailureKinds \cup MalformedKinds

ResultBodies == {"result" :> PyStr("ok"), "result" :> PyStr("fail"), EmptyDict}
TypeBodies == {"type" :> PyStr("xTool D1"), EmptyDict}
MacBodies == {"mac" :> PyStr("AA:BB"), "mac" :> PyStr(""), EmptyDict}
WorkingBodies == {"working" :> PyStr("1"), "working" :> PyNum(2), EmptyDict}
ProgressBodies == {ProgressFull, EmptyDict, "progress" :> PyStr("abc"), "line" :> PyNone}
PeripheralBodies == {"sdCard" :> PyNum(1)}

\* the record of one call: the method, the answer(s) it got, whether some
\* answer is bad, and what the call returned or raised
HttpRecord(method, resps, out) ==
    [method |-> method, resps |-> resps,
     bad |-> \E i \in DOMAIN resps : BadResponse(resps[i]), out |-> out]

\* no call is being looked at
NoCall == [method |-> "none"]
not_http == << coord_vars, obs_vars, dispatch_vars, ws_vars, ext_vars >>

CallPing ==
    /\ http_call = NoCall
    /\ \E resp \in Responses(ResultBodies) :
          http_call' = HttpRecord("ping", << resp >>, async_ping(resp))
    /\ UNCHANGED not_http

CallGetMachineType ==
    /\ http_call = NoCall
    /\ \E resp \in Responses(TypeBodies) :
          http_call' = HttpRecord("getMachineType", << resp >>, async_get_machine_type(resp))
    /\ UNCHANGED not_http

CallGetMac ==
    /\ http_call = NoCall
    /\ \E resp \in Responses(MacBodies) :
          http_call' = HttpRecord("getMac", << resp >>, async_get_mac(resp))
    /\ UNCHANGED not_http

CallGetProgress ==
    /\ http_call = NoCall
    /\ \E resp \in Responses(ProgressBodies) :
          http_call' = HttpRecord("getProgress", << resp >>, async_get_progress(resp))
    /\ UNCHANGED not_http

CallGetWorkingState ==
    /\ http_call = NoCall
    /\ \E resp \in Responses(WorkingBodies) :
          http_call' = HttpRecord("getWorkingState", << resp >>, async_get_working_state(resp))
    /\ UNCHANGED not_http

CallGetPeripheralStatus ==
    /\ http_call = NoCall
    /\ \E resp \in Responses(PeripheralBodies) :
          http_call' = HttpRecord("getPeripheralStatus", << resp >>,
                                  async_get_peripheral_status(resp))
    /\ UNCHANGED not_http

CallCncAction ==
    /\ http_call = NoCall
    /\ \E resp \in Responses(ResultBodies) :
          http_call' = HttpRecord("sendControlAction", << resp >>, async_cnc_action(resp))
    /\ UNCHANGED not_http

CallGetSnapshot ==
    /\ http_call = NoCall
    /\ \E rp \in Responses(ProgressBodies), rw \in Responses(WorkingBodies),
          rs \in Responses(PeripheralBodies), rm \in Responses(TypeBodies) :
          \E out \in async_get_snapshot(rp, rw, rs, rm) :
              http_call' = HttpRecord("getSnapshot", << rp, rw, rs, rm >>, out)
    /\ UNCHANGED not_http

\* the caller has looked at the outcome; the next call may be made
CallOver ==
    /\ http_call # NoCall
    /\ http_call' = NoCall
    /\ UNCHANGED not_http

(***************************************************************************)
(* The life of the entry "e1": async_setup_entry and async_unload_entry of *)
(* __init__.py with XToolDataUpdateCoordinator.async_start / async_stop.   *)
(***************************************************************************)
\* what the steps of the entry's life leave alone
life_frame == << dispatch_vars, http_call, disc_vars, svc_pc, svc_targets, svc_action,
                 svc_result, sent, refreshed >>

\* async_setup_entry lines 30-47, up to the await of the first refresh: the
\* options are read, the client and the coordinator are built and put in the
\* registry, and the first poll starts
SetupEntry ==
    /\ setup_pc = "none"
    /\ \E flag \in BOOLEAN : use_websocket' = flag
    /\ registry' = RegistryInsert(registry, "e1")
    /\ StartPoll("first")
    /\ setup_pc' = "refreshing"
    /\ last_op' = "poll_start"
    /\ UNCHANGED << life_frame, ws_vars >>

\* line 48, async_forward_entry_setups: the platforms add their entities,
\* which subscribe to the coordinator (the first listener arms the timer)
SetupForward ==
    /\ setup_pc = "forwarding"
    /\ setup_pc' = "forwarded"
    /\ has_listeners' = TRUE
    /\ refresh_in' = {DEFAULT_SCAN_INTERVAL}
    /\ notified' = 0
    /\ last_op' = "subscribe"
    /\ UNCHANGED << data, last_update_success, last_exception, poll_pc, poll_origin,
                    last_snapshot, reading, last_push, push_in_poll >>
    /\ UNCHANGED << life_frame, ws_vars, registry, use_websocket >>

\* async_start starting the push channel whatever the flag says
async_start_Always == async_start_ws

\* XToolDataUpdateCoordinator.async_start
async_start ==
    IF use_websocket
    THEN async_start_ws
    ELSE /\ last_op' = "coord_start"
         /\ UNCHANGED << ws_task, ws_stop, task_pc >>

\* lines 50-53: `await coordinator.async_start()`; the setup returns True
SetupStart ==
    /\ setup_pc = "forwarded"
    /\ setup_pc' = "started"
    /\ async_start
    /\ notified' = 0
    /\ UNCHANGED << cancel_req, stop_pc, stop_wait, attempt, backoff, delivered >>
    /\ UNCHANGED << data, last_update_success, last_exception, has_listeners, refresh_in,
                    poll_pc, poll_origin, last_snapshot, reading, last_push, push_in_poll >>
    /\ UNCHANGED << life_frame, registry, use_websocket >>

\* XToolDataUpdateCoordinator.async_stop is called (by async_unload_entry
\* line 61, or by whoever stops the coordinator): async_stop_ws up to its
\* await
CoordStop ==
    \E c \in StopCallers :
        /\ setup_pc = "started"
        /\ async_stop_ws_begin(c)
        /\ setup_pc' = IF stop_pc'[c] = "awaiting" THEN "stopping" ELSE "stopped"
        /\ UNCHANGED << attempt, backoff, delivered >>
        /\ UNCHANGED << coord_vars, last_snapshot, reading, last_push, push_in_poll >>
        /\ UNCHANGED << life_frame, registry, use_websocket >>

\* the awaited task has ended: async_stop_ws and async_stop return
CoordStopped ==
    \E c \in StopCallers :
        /\ setup_pc = "stopping"
        /\ async_stop_ws_resume(c)
        /\ setup_pc' = "stopped"
        /\ UNCHANGED << attempt, backoff, delivered >>
        /\ UNCHANGED << coord_vars, last_snapshot, reading, last_push, push_in_poll >>
        /\ UNCHANGED << life_frame, registry, use_websocket >>

\* async_unload_entry lines 62-69 after async_stop returned: when the
\* platforms unload, the entities unsubscribe (the last listener leaving
\* cancels the scheduled refresh) and the entry leaves the registry;
\* when they do not, everything stays
UnloadPlatforms ==
    \E unload_ok \in BOOLEAN :
        /\ setup_pc = "stopped"
        /\ IF unload_ok
           THEN /\ setup_pc' = "unloaded"
                /\ has_listeners' = FALSE
                /\ refresh_in' = {}
                /\ registry' = RegistryPop(registry, "e1")
           ELSE /\ setup_pc' = "kept"
                /\ UNCHANGED << has_listeners, refresh_in, registry >>
        /\ notified' = 0
        /\ last_op' = "unload"
        /\ UNCHANGED << data, last_update_success, last_exception, poll_pc, poll_origin,
                        last_snapshot, reading, last_push, push_in_poll >>
        /\ UNCHANGED << life_frame, ws_vars, use_websocket >>

(***************************************************************************)
(* XToolApiClient._discover_devices_sync: one blocking run on an executor  *)
(* thread. A step is the start of the run (socket set-up and broadcast) or *)
(* one round of the receive loop.                                          *)
(***************************************************************************)
\* random.randint(100000, 999999): the ends of the range stand for all ids
RequestIds == {100000, 999999}

\* values of the "ip" field, as texts over Chars
IpTexts == {<< "a" >>, << "a", " " >>, << " ", "a" >>, << "a", "a" >>, << " " >>, << >>}
NameValues == {PyStr("D1"), PyStr("D1 Pro")}
VersionValues == {PyStr("1.0")}

\* a dict built from the fields that are present
Field(key, vals) == {[k \in {} |-> PyNone]} \cup {key :> v : v \in vals}
Merge(A, B) == {a @@ b : a \in A, b \in B}

\* the JSON objects a datagram may carry: any of requestId, ip, name and
\* version present or not (the client's own broadcast, {"requestId": id},
\* is one of them)
DatagramBodies ==
    Merge(Merge(Field("requestId", {PyNum(i) : i \in RequestIds}),
                Field("ip", {PyText(t) : t \in IpTexts})),
          Merge(Field("name", NameValues), Field("version", VersionValues)))

\* a received datagram: bytes that do not decode as JSON, a JSON value that
\* is not an object, or a JSON object
Datagrams ==
    {[kind |-> "nonjson"], [kind |-> "array"]}
        \cup {[kind |-> "object", body |-> b] : b \in DatagramBodies}

NoDatagram == [kind |-> "none"]
NoHosts == [h \in {} |-> PyNone]

\* str() of a field value that may be a text over Chars
FieldText(v) == IF "chars" \in DOMAIN v THEN v.chars ELSE << py_str(v) >>

\* lines 145-150: whether the message is taken as a response of this run,
\* and the host it is filed under
MatchesRequest(body, rid) == DictGet(body, "requestId", PyNone) = PyNum(rid)
HostOf(body) == strip(FieldText(DictGet(body, "ip", PyText(<< >>))))

\* lines 152-156: the entry built from a message
DeviceEntry(body) ==
    [host |-> HostOf(body),
     name |-> py_str(DictGet(body, "name", PyStr("xTool Laser"))),
     version |-> py_str(DictGet(body, "version", PyStr("")))]

\* found[host] = entry: an existing key keeps its place, a new key goes last
FoundAssign(fnd, entry) ==
    IF \E i \in DOMAIN fnd : fnd[i].host = entry.host
    THEN [i \in DOMAIN fnd |-> IF fnd[i].host = entry.host THEN entry ELSE fnd[i]]
    ELSE Append(fnd, entry)

\* the filter taking every message that names a host, whatever its requestId
Accepted_AnyRequest(body, rid) == HostOf(body) # << >>

\* lines 145-150: the message passes both `continue` tests
Accepted(body, rid) == MatchesRequest(body, rid) /\ HostOf(body) # << >>

\* the run ends: `finally: sock.close()` and the return or the exception
DiscEnds(result, closed) ==
    /\ disc_pc' = "done"
    /\ disc_result' = result
    /\ sock' = IF closed THEN "closed" ELSE sock

\* lines 120-129: the request id is drawn, the socket is created, set up and
\* bound, and the request is broadcast. socket.socket() is outside the try;
\* OSError from setsockopt, bind or sendto is caught and gives []
DiscStart ==
    /\ disc_pc = "idle"
    /\ \E rid \in RequestIds : request_id' = rid
    /\ found' = << >>
    /\ disc_count' = 0
    /\ disc_last' = NoDatagram
    /\ last_accepted' = NoHosts
    /\ \E outcome \in {"socket_fails", "setup_fails", "ok"} :
          CASE outcome = "socket_fails" ->
                   /\ DiscEnds(Raise("OSError"), FALSE)
                   /\ sock_error' = TRUE
            [] outcome = "setup_fails" ->
                   /\ DiscEnds(Ret(<< >>), TRUE)
                   /\ sock_error' = TRUE
            [] OTHER ->
                   /\ disc_pc' = "receiving"
                   /\ sock' = "open"
                   /\ sock_error' = FALSE
                   /\ disc_result' = [st |-> "none"]
    /\ UNCHANGED << coord_vars, obs_vars, dispatch_vars, ws_vars, http_call, svc_vars, life_vars >>

\* lines 136-156, one datagram: decode, filter, file under its host
DiscReceive ==
    \E d \in Datagrams :
        /\ disc_pc = "receiving"
        /\ disc_count < MaxDatagrams
        /\ disc_count' = disc_count + 1
        /\ disc_last' = d
        /\ CASE d.kind = "nonjson" ->
                    UNCHANGED << disc_pc, sock, found, last_accepted, disc_result >>
             [] d.kind = "array" ->
                    /\ DiscEnds(Raise("AttributeError"), TRUE)
                    /\ UNCHANGED << found, last_accepted >>
             [] OTHER ->
                    /\ IF Accepted(d.body, request_id)
                       THEN /\ found' = FoundAssign(found, DeviceEntry(d.body))
                            /\ last_accepted' =
                                   (HostOf(d.body) :> [name |-> DeviceEntry(d.body).name,
                                                       version |-> DeviceEntry(d.body).version])
                                       @@ last_accepted
                       ELSE UNCHANGED << found, last_accepted >>
                    /\ UNCHANGED << disc_pc, sock, disc_result >>
        /\ UNCHANGED << request_id, sock_error >>
        /\ UNCHANGED << coord_vars, obs_vars, dispatch_vars, ws_vars, http_call, svc_vars, life_vars >>

\* sock.recvfrom (or settimeout) raises OSError: `except OSError: return []`
DiscSocketError ==
    /\ disc_pc = "receiving"
    /\ DiscEnds(Ret(<< >>), TRUE)
    /\ sock_error' = TRUE
    /\ UNCHANGED << request_id, found, disc_count, disc_last, last_accepted >>
    /\ UNCHANGED << coord_vars, obs_vars, dispatch_vars, ws_vars, http_call, svc_vars, life_vars >>

\* the window is over (recvfrom times out, or the while test fails):
\* return list(found.values())
DiscTimeout ==
    /\ disc_pc = "receiving"
    /\ DiscEnds(Ret(found), TRUE)
    /\ UNCHANGED << request_id, found, disc_count, disc_last, sock_error, last_accepted >>
    /\ UNCHANGED << coord_vars, obs_vars, dispatch_vars, ws_vars, http_call, svc_vars, life_vars >>

(***************************************************************************)
(* Specifications.                                                         *)
(***************************************************************************)
Init ==
    /\ data = None
    /\ last_update_success = TRUE
    /\ last_exception = "none"
    /\ has_listeners = FALSE
    /\ refresh_in = {}
    /\ poll_pc = "idle"
    /\ poll_origin = "none"
    /\ notified = 0
    /\ last_op = "init"
    /\ last_snapshot = [st |-> "none"]
    /\ reading = {}
    /\ last_push = {}
    /\ push_in_poll = {}
    /\ dispatch_pc = "idle"
    /\ cnc_request = "none"
    /\ ws_task = 0
    /\ ws_stop = FALSE
    /\ task_pc = [t \in Tasks |-> "unborn"]
    /\ cancel_req = {}
    /\ stop_pc = [c \in StopCallers |-> "idle"]
    /\ stop_wait = [c \in StopCallers |-> 0]
    /\ attempt = [t \in Tasks |-> "none"]
    /\ backoff = [t \in Tasks |-> 0]
    /\ delivered = [t \in Tasks |-> FALSE]
    /\ http_call = NoCall
    /\ registry = << >>
    /\ svc_pc = "idle"
    /\ svc_targets = << >>
    /\ svc_action = "none"
    /\ svc_result = [st |-> "none"]
    /\ sent = {}
    /\ refreshed = {}
    /\ disc_pc = "idle"
    /\ sock = "none"
    /\ request_id = 0
    /\ found = << >>
    /\ disc_count = 0
    /\ disc_last = NoDatagram
    /\ sock_error = FALSE
    /\ last_accepted = NoHosts
    /\ disc_result = [st |-> "none"]
    /\ use_websocket = TRUE
    /\ setup_pc = "none"

\* one coordinator: polls and push messages in any order
Next ==
    \/ Subscribe
    \/ Tick
    \/ FirstRefresh
    \/ ScheduledPoll
    \/ PollComplete
    \/ PushMessage

Spec == Init /\ [][Next]_vars

\* one coordinator: polls and control actions
NextDispatch ==
    \/ Subscribe
    \/ Tick
    \/ FirstRefresh
    \/ ScheduledPoll
    \/ PollComplete
    \/ PushMessage
    \/ Dispatch
    \/ DispatchAnswer

SpecDispatch == Init /\ [][NextDispatch]_vars

\* the job services over a registry whose entries come and go, with the
\* polls of the coordinator of entry "e1"
NextService ==
    \/ EntryLoaded
    \/ EntryUnloaded
    \/ ServiceCall
    \/ ServiceReply
    \/ ServiceNext
    \/ PollComplete

\* one coordinator polling a device whose job advances
NextReadings ==
    \/ Subscribe
    \/ Tick
    \/ FirstRefresh
    \/ ScheduledPoll
    \/ PollReadings
    \/ PushMessage

SpecReadings == Init /\ [][NextReadings]_vars

SpecService == Init /\ [][NextService]_vars

\* one client: the push channel, started and stopped in any order
NextWs ==
    \/ StartWs
    \/ StopWsBegin
    \/ StopWsResume
    \/ TaskBegin
    \/ ConnectFail
    \/ ConnectOk
    \/ ConnectionEnds
    \/ OtherFrame
    \/ TextFrame
    \/ SleepDone
    \/ TaskCancelled

SpecWs == Init /\ [][NextWs]_vars

\* the same, with the event loop's timers firing: a task that sleeps is
\* woken when its asyncio.sleep(5) is over
SpecWsFair == Init /\ [][NextWs]_vars /\ \A t \in Tasks : WF_vars(SleepDoneOf(t))

\* the event loop runs every task it has scheduled: a cancelled task gets
\* its CancelledError, and the caller awaiting a finished task is resumed
SpecWsStop ==
    /\ Init /\ [][NextWs]_vars
    /\ \A t \in Tasks : WF_vars(TaskCancelledOf(t))
    /\ WF_vars(StopWsResume)

\* the HTTP methods, each called with every kind of answer
NextHttp ==
    \/ CallPing
    \/ CallGetMachineType
    \/ CallGetMac
    \/ CallGetProgress
    \/ CallGetWorkingState
    \/ CallGetPeripheralStatus
    \/ CallGetSnapshot
    \/ CallCncAction
    \/ CallOver

SpecHttp == Init /\ [][NextHttp]_vars

\* the entry "e1" from its setup to its unloading, with the polls of its
\* coordinator and the push channel of its client
NextLife ==
    \/ SetupEntry
    \/ PollComplete
    \/ SetupForward
    \/ SetupStart
    \/ Tick
    \/ ScheduledPoll
    \/ TaskBegin
    \/ ConnectFail
    \/ ConnectOk
    \/ ConnectionEnds
    \/ OtherFrame
    \/ TextFrame
    \/ SleepDone
    \/ TaskCancelled
    \/ CoordStop
    \/ CoordStopped
    \/ UnloadPlatforms

SpecLife == Init /\ [][NextLife]_vars

\* one run of the UDP discovery
NextDiscover ==
    \/ DiscStart
    \/ DiscReceive
    \/ DiscSocketError
    \/ DiscTimeout

SpecDiscover == Init /\ [][NextDiscover]_vars

(***************************************************************************)
(* Properties.                                                             *)
(***************************************************************************)
PolledKeys == {"progress", "working", "line", "working_state", "machine_type",
               "peripheral_status"}

\* C1: once a push message has been handled, the snapshot's push-event field
\* is the most recently handled message in every later state, whatever
\* successful or failed polls came in between.
C1_PushFieldSticky ==
    \A m \in last_push :
        ATTR_WS_STATE \in DOMAIN data /\ data[ATTR_WS_STATE] = PyText(m)

\* a poll that started after the last push has completed successfully
C1_Witness ==
    /\ last_push # {}
    /\ last_op = "poll_ok"
    /\ push_in_poll = {}
    /\ data[ATTR_WS_STATE] = PyText(<< >>)

\* C2: a push message handled while a poll is in flight is in the snapshot
\* that the poll produces, together with the fields that poll fetched.
C2_PushDuringPollKept ==
    (last_op = "poll_ok" /\ push_in_poll # {}) =>
        /\ \A m \in push_in_poll :
              ATTR_WS_STATE \in DOMAIN data /\ data[ATTR_WS_STATE] = PyText(m)
        /\ \A k \in PolledKeys : data[k] = last_snapshot.val[k]

\* a poll completed successfully with a push handled while it was in flight
C2_Witness == last_op = "poll_ok" /\ push_in_poll # {} /\ last_update_success

\* C3: when a sub-call of getSnapshot fails, getSnapshot fails with
\* ProtocolError (XToolApiError), the poll ends as update-failed and the
\* completing poll leaves the current snapshot as it was.
C3_SnapshotAtomic ==
    [][(poll_pc = "in_flight" /\ poll_pc' = "idle" /\ Raised(last_snapshot'))
         => /\ last_snapshot' = Raise("XToolApiError")
            /\ last_exception' = "UpdateFailed"
            /\ data' = data]_vars

C8_PushChangesOnlyPushField ==
    [][last_op' = "push"
         => /\ \E m \in Msgs : data' = (ATTR_WS_STATE :> PyText(m)) @@ DataOrEmpty(data)
            /\ notified' = 1
            /\ poll_pc' = poll_pc
            /\ \A n \in refresh_in : \E k \in refresh_in' : k <= n]_vars

\* C9: the snapshot's working-state label is the image of its raw
\* working-state string under the table 0/idle, 1/running_api,
\* 2/running_button, anything else/unknown.
C9_WorkingStateLabel ==
    "working_state" \in DOMAIN data =>
        LET raw == data["working_state"].s
            label == data["working_state_label"].s
        IN  /\ raw = "0" => label = "idle"
            /\ raw = "1" => label = "running_api"
            /\ raw = "2" => label = "running_button"
            /\ raw \notin {"0", "1", "2"} => label = "unknown"

\* a successful poll of a device reporting a state outside the table
C9_Witness ==
    /\ last_op = "poll_ok"
    /\ data["working_state"] = PyStr("9")
    /\ data["working_state_label"] = PyStr("unknown")

\* C4: when async_stop_ws returns, no push-channel task of the client is
\* running.
C4_StopReturnsAfterTermination ==
    last_op = "ws_stop_return" => \A t \in Tasks : ~Alive(t)

\* C5: every task that is alive is the one the client references (so at most
\* one is alive and none is orphaned).
C5_NoOrphanTask == \A t \in Tasks : Alive(t) => ws_task = t

\* C6: after a connection attempt that failed in ws_connect, the task has
\* slept exactly one backoff of 5 seconds when the next attempt is under
\* way, and on_message was not called during the failed attempt.
C6_OneBackoffAfterFailure ==
    \A t \in Tasks :
        attempt[t] = "failed" =>
            /\ task_pc[t] \in {"connecting", "receiving"} => backoff[t] = BACKOFF_SECONDS
            /\ task_pc[t] = "sleeping" => backoff[t] = 0 /\ ~delivered[t]

\* the attempt after a failed one is under way
C6_Witness ==
    \E t \in Tasks :
        attempt[t] = "failed" /\ task_pc[t] = "connecting" /\ backoff[t] = BACKOFF_SECONDS

\* C10: a method that got a timeout, a transport failure, a non-2xx status,
\* a non-JSON body or a malformed body raises ProtocolError (XToolApiError).
C10_BadResponseRaisesProtocolError ==
    (http_call # NoCall /\ http_call.bad) => http_call.out = Raise("XToolApiError")

\* C11: a service call made when the registry is empty, or naming an entry
\* id that is not in the registry, raises HomeAssistantError in the calling
\* step, sends no device request and asks no coordinator for a refresh.
C11_UnknownTargetRaises ==
    [][(svc_pc = "idle" /\ last_op' = "service_call"
          /\ (\/ registry = << >>
              \/ /\ svc_result'.entry_id # PyNone
                 /\ svc_result'.entry_id.s \notin Loaded(registry)))
         => /\ svc_result'.st = "raise"
            /\ svc_result'.err = "HomeAssistantError"
            /\ svc_pc' = "idle"
            /\ sent' = {}
            /\ refreshed' = {}
            /\ poll_pc' = poll_pc]_vars

\* C12: a run of the discovery ends with a returned list, never with an
\* exception, whatever socket call failed and whatever the datagrams held;
\* the list is empty after a socket error; no socket is left open.
C12_DiscoveryNeverRaises ==
    disc_pc = "done" =>
        /\ disc_result.st = "return"
        /\ sock_error => disc_result.val = << >>
        /\ sock # "open"

\* C13: a run without a socket error returns exactly one entry per host
\* among the accepted responses, carrying the name and the version of the
\* last accepted response from that host.
C13_OneEntryPerHost ==
    (disc_pc = "done" /\ ~sock_error) =>
        /\ disc_result.st = "return"
        /\ LET res == disc_result.val IN
           /\ {res[i].host : i \in DOMAIN res} = DOMAIN last_accepted
           /\ Len(res) = Cardinality(DOMAIN last_accepted)
           /\ \A i \in DOMAIN res :
                 /\ res[i].name = last_accepted[res[i].host].name
                 /\ res[i].version = last_accepted[res[i].host].version

\* an "ip" text that is empty or blank
IsBlank(t) == \A i \in DOMAIN t : t[i] = " "

\* a datagram that does not decode as JSON, or a JSON object whose requestId
\* is absent or is not the id sent, or whose ip is absent, empty or blank
Ignorable(d, rid) ==
    \/ d.kind = "nonjson"
    \/ /\ d.kind = "object"
       /\ \/ "requestId" \notin DOMAIN d.body
          \/ d.body["requestId"] # PyNum(rid)
          \/ "ip" \notin DOMAIN d.body
          \/ IsBlank(d.body["ip"].chars)

C15_RetryUntilStopped ==
    /\ [][\A t \in Tasks :
            (Alive(t) /\ ~Alive(t)') => (ws_stop \/ t \in cancel_req)]_vars
    /\ \A t \in Tasks :
          (task_pc[t] = "sleeping")
              ~> (task_pc[t] = "connecting" \/ ws_stop \/ t \in cancel_req)

\* a task is connecting again after a connection that was open has ended
C15_Witness ==
    \E t \in Tasks :
        /\ attempt[t] = "closed"
        /\ task_pc[t] = "connecting"
        /\ backoff[t] = BACKOFF_SECONDS
        /\ ~ws_stop
        /\ t \notin cancel_req

\* C20: async_start_ws called while a push-channel task is running spawns
\* nothing and leaves the tasks, the stop signal and the task reference as
\* they are; called while none is running it clears the stop signal and
\* spawns exactly one task.
C20_StartIdempotent ==
    [][last_op' \in {"ws_start", "ws_start_noop"}
         => IF \E t \in Tasks : Alive(t)
            THEN /\ task_pc' = task_pc
                 /\ ws_stop' = ws_stop
                 /\ ws_task' = ws_task
            ELSE /\ ~ws_stop'
                 /\ Cardinality({t \in Tasks : Alive(t)'}) = 1
                 /\ ws_task' # 0
                 /\ task_pc'[ws_task'] = "created"]_vars

\* C16: a poll that fails ends as UpdateFailed, leaves the snapshot alone and
\* has the next poll scheduled one interval ahead for the subscribers; a
\* poll that succeeds stores its snapshot and clears the failure.
C16_FailedPollKeepsPolling ==
    [][(poll_pc = "in_flight" /\ poll_pc' = "idle")
         => /\ last_op' = "poll_failed"
                => /\ last_exception' = "UpdateFailed"
                   /\ ~last_update_success'
                   /\ data' = data
            /\ last_op' = "poll_ok"
                => /\ last_update_success'
                   /\ \A k \in PolledKeys : data'[k] = last_snapshot'.val[k]
            /\ has_listeners => refresh_in' = {DEFAULT_SCAN_INTERVAL}]_vars

\* async_stop has returned for the coordinator of "e1"
Stopped == setup_pc \in {"stopped", "unloaded", "kept"}

\* C17: once the coordinator has been stopped, no refresh is scheduled and
\* no push-channel task runs, it stays stopped, and no poll starts.
C17_StoppedIsTerminal ==
    [][/\ Stopped' => /\ refresh_in' = {}
                      /\ \A t \in Tasks : ~Alive(t)'
       /\ Stopped => /\ Stopped'
                     /\ ~(poll_pc = "idle" /\ poll_pc' = "in_flight")]_vars

\* C18: while the coordinator is started and not stopped, a push-channel
\* task is referenced and running exactly if use_websocket is set; with the
\* flag off no task is ever spawned.
C18_ChannelIffFlag ==
    /\ setup_pc = "started" => (use_websocket <=> (ws_task # 0 /\ Alive(ws_task)))
    /\ (setup_pc # "none" /\ ~use_websocket) => \A t \in Tasks : task_pc[t] = "unborn"

\* the coordinator is started with the flag set and its task is receiving
C18_Witness ==
    /\ setup_pc = "started"
    /\ use_websocket
    /\ ws_task # 0
    /\ task_pc[ws_task] = "receiving"
    /\ has_listeners

\* C19: the step that sets the entry up starts the first poll, with no
\* refresh scheduled and no push-channel task spawned; no task is spawned
\* while the first poll is in flight; a task is spawned only after the
\* first poll succeeded; after a failed first poll the setup stays failed
\* and no task is ever spawned.
C19_FirstPollThenChannel ==
    [][/\ (setup_pc = "none" /\ setup_pc' # "none")
            => /\ poll_pc' = "in_flight"
               /\ poll_origin' = "first"
               /\ refresh_in' = {}
               /\ \A t \in Tasks : task_pc'[t] = "unborn"
       /\ setup_pc = "refreshing" => \A t \in Tasks : task_pc'[t] = "unborn"
       /\ (\E t \in Tasks : task_pc[t] = "unborn" /\ task_pc'[t] # "unborn")
            => /\ setup_pc = "forwarded"
               /\ data # None
       /\ setup_pc = "failed"
            => /\ setup_pc' = "failed"
               /\ \A t \in Tasks : task_pc'[t] = "unborn"]_vars

\* the first poll has failed: the setup is over and no task was spawned
C19_Witness ==
    /\ setup_pc = "failed"
    /\ last_op = "poll_failed"
    /\ poll_origin = "first"
    /\ use_websocket
    /\ \A t \in Tasks : task_pc[t] = "unborn"

\* C21: text frames reach the coordinator one at a time in the order
\* _ws_loop received them: after every step the snapshot's push-event field
\* is the text handed over for the text frame received last; the step that
\* receives a text frame notifies the subscribers once and changes no other
\* field of the snapshot; no other step of the channel changes the snapshot.
C21_PushInArrivalOrder ==
    [][/\ \A m \in last_push' :
             /\ ATTR_WS_STATE \in DOMAIN data'
             /\ data'[ATTR_WS_STATE] = PyText(m)
       /\ last_op' = "push"
            => /\ last_push' # {}
               /\ notified' = 1
               /\ \A k \in DOMAIN DataOrEmpty(data) \ {ATTR_WS_STATE} :
                     data'[k] = data[k]
       /\ last_op' # "push" => data' = data /\ last_push' = last_push]_vars

\* a text frame received on a reconnected channel is the field
C21_Witness ==
    /\ last_op = "push"
    /\ last_push = {<< "a" >>}
    /\ data[ATTR_WS_STATE] = PyText(<< "a" >>)
    /\ notified = 1
    /\ \E t \in Tasks : delivered[t] /\ attempt[t] = "closed"

\* C22: after a successful poll the progress and line sensors show what the
\* device returned, 0 for a field it left out; the working-time sensor shows
\* the whole number of seconds nearest to the device's working milliseconds
\* divided by 1000; a poll returning progress 45, working 120000, line 30
\* and working state "1" shows 45, 120 seconds, 30 and running_api.
C22_EndToEndValues ==
    last_op = "poll_ok" =>
        \A r \in reading :
            LET dev(i) == IF r[i] = PyNone THEN PyNum(0) ELSE r[i]
                seconds == native_value("working_seconds").n
                off == dev(2).n - 1000 * seconds
            IN  /\ native_value("progress") = dev(1)
                /\ native_value("line") = dev(3)
                /\ -500 <= off /\ off <= 500
                /\ (/\ r = << PyNum(45), PyNum(120000), PyNum(30) >>
                    /\ data["working_state"] = PyStr("1"))
                      => /\ native_value("progress") = PyNum(45)
                         /\ native_value("working_seconds") = PyNum(120)
                         /\ native_value("line") = PyNum(30)
                         /\ native_value("working_state") = PyStr("running_api")

\* a successful poll of a device 1501 ms into its job shows 2 seconds
C22_Witness ==
    /\ last_op = "poll_ok"
    /\ \E r \in reading : r[2] = PyNum(1501)
    /\ native_value("working_seconds") = PyNum(2)
    /\ native_value("progress") = PyNum(1)

\* C23: on_message is invoked only by a task taking a text frame from its
\* connection, with the trimmed text, never while the stop signal is set,
\* and never between the return of async_stop_ws and the next
\* async_start_ws (that is, while the client references no task).
C23_OnMessageOnlyWhileStarted ==
    [][last_op' = "push"
         => /\ \E t \in Tasks : task_pc[t] = "receiving" /\ delivered'[t]
            /\ \A m \in last_push' : m \in Msgs /\ strip(m) = m
            /\ ~ws_stop
            /\ ws_task # 0]_vars

\* C24: an async_stop_ws that suspended on the push-channel task returns,
\* whichever state of the reconnect loop the task was in (about to run,
\* connecting, waiting for a frame, or in the backoff sleep): the task it
\* cancelled ends and the caller is resumed.
C24_StopTerminates ==
    \A c \in StopCallers :
        \A at \in {"created", "connecting", "receiving", "sleeping"} :
            (stop_pc[c] = "awaiting" /\ task_pc[stop_wait[c]] = at)
                ~> (stop_pc[c] = "idle" /\ last_op = "ws_stop_return")

\* async_stop_ws has cancelled a task that is in its backoff sleep and
\* awaits it
C24_Witness ==
    \E c \in StopCallers :
        /\ stop_pc[c] = "awaiting"
        /\ last_op = "ws_stop_await"
        /\ task_pc[stop_wait[c]] = "sleeping"
        /\ stop_wait[c] \in cancel_req

\* C25: the entry is in the registry only when its first poll has succeeded
\* and it has not been unloaded; after a failed first poll no service call
\* has it among its targets.
C25_RegistryOnlyActive ==
    /\ "e1" \in Loaded(registry)
          => setup_pc \in {"forwarding", "forwarded", "started", "stopping", "stopped", "kept"}
    /\ setup_pc = "failed"
          => \A entry_id \in EntryIdInputs :
                LET entries == _get_target_entries(registry, entry_id)
                IN  Raised(entries) \/ "e1" \notin Loaded(entries.val)

\* C26: a service call without a target id takes the registry, in its order,
\* as its targets and sends the action to the first; every answered request
\* is followed by the poll request of that device and then by the action for
\* the next target, until all targets had theirs; a request that raises
\* XToolApiError ends the call with that error, with no poll requested for
\* that device and no action sent to the targets after it.
C26_FanOutInOrder ==
    [][/\ (last_op' = "service_call" /\ svc_result'.entry_id = PyNone /\ registry # << >>)
            => /\ svc_targets' = registry
               /\ sent' = {Head(registry)}
               /\ refreshed' = {}
               /\ poll_pc' = poll_pc
       /\ (last_op' = "service_reply" /\ svc_result.entry_id = PyNone /\ svc_pc' = "next")
            => /\ refreshed' = refreshed \cup {Head(svc_targets)}
               /\ Head(svc_targets) = "e1" => poll_pc' = "in_flight"
       /\ (last_op' = "service_reply" /\ svc_result.entry_id = PyNone
             /\ svc_result'.err = "XToolApiError")
            => /\ svc_pc' = "idle"
               /\ svc_result'.st = "raise"
               /\ refreshed' = refreshed
               /\ sent' = sent
               /\ poll_pc' = poll_pc
       /\ (last_op' = "service_next" /\ svc_result.entry_id = PyNone /\ svc_targets # << >>)
            => /\ svc_pc' = "sending"
               /\ sent' = sent \cup {Head(svc_targets)}
       /\ (last_op' = "service_next" /\ svc_result.entry_id = PyNone /\ svc_targets = << >>)
            => /\ svc_result'.st = "return"
               /\ sent = refreshed]_vars

\* C27: when the entry is set up in the integration's order (first poll,
\* then push channel), every snapshot the coordinator holds or publishes
\* has all polled fields and the label, whatever push messages, failed
\* polls and successful polls came before.
C27_PublishedSnapshotComplete ==
    data # None =>
        /\ PolledKeys \subseteq DOMAIN data
        /\ "working_state_label" \in DOMAIN data

\* a push message was published on a set-up entry after a failed poll: the
\* snapshot has the push-event field next to the polled fields
C27_Witness ==
    /\ last_op = "push"
    /\ notified = 1
    /\ setup_pc = "started"
    /\ last_exception # "none"
    /\ ATTR_WS_STATE \in DOMAIN data
    /\ PolledKeys \subseteq DOMAIN data

====
